---- MODULE Spec2Model ----
(***************************************************************************)
(* Model of src/index.tsx: a single-page form that requests generated or   *)
(* edited images from a remote API.                                        *)
(*                                                                         *)
(* JavaScript strings are sequences of chunks (TLA+ strings).  The chunks  *)
(* the code inspects (whitespace for trim(), the "image/" prefix for       *)
(* startsWith(), the "," for split()) are chunks of their own.             *)
(* null and undefined are one-chunk sequences no string of the model       *)
(* equals.                                                                 *)
(*                                                                         *)
(* Not modelled: the alt text and the download file name appendImage gives *)
(* an entry (the file name is Date.now()), the src of the preview images,  *)
(* the dragover styling and console.error.  None of them is read by the    *)
(* code.                                                                   *)
(***************************************************************************)
EXTENDS Integers, Sequences, FiniteSets, Bags, TLC

VARIABLES
  app,      \* the module's globals and the DOM state the code reads and writes
  reads,    \* FileReader reads in flight: a bag of [handler, file]
  calls,    \* remote calls in flight, each a suspended generate(): a bag of
            \* the SDK operations awaited
  alerted,  \* the alert() shown by the last step, NoAlert if none
  sent,     \* the request the last step handed to the SDK, NoRequest if none
  events,   \* the number of user events dispatched so far
  last,     \* the listener or continuation the last step ran
  selected  \* per slot, the image file the user selected last, NoFile once
            \* the slot was cleared after it

vars == <<app, reads, calls, alerted, sent, events, last, selected>>

\* ------------------------------------------------------------------ bounds
\* the user events of a session; file reads and remote calls in flight are
\* bounded by it
MaxEvents == 5

\* --------------------------------------------------------------- constants
Null == <<"null">>
Undefined == <<"undefined">>

Truthy(s) == s # Null /\ s # Undefined /\ s # <<>>

textToImageModel == "imagen-4.0-generate-001"
imageEditModel == "gemini-2.5-flash-image-preview"
defaultImagenPrompt == <<"Editorial wildlife photograph: a sleek black panther">>
NumberOfImages == 4

UpscaleInstruction ==
  <<"Upscale this image to a higher resolution, enhancing details without altering the content or style.">>
FaceSwapInstruction ==
  <<"From the first image provided, extract the face. Then, seamlessly swap this face onto the most prominent person in the second image provided. Ensure the lighting, skin tone, and angle of the new face match the target image's environment.">>

Modes == {"text-to-image", "image-edit", "image-upscale", "face-swap"}
AspectRatios == {"1:1", "3:4", "4:3", "16:9"}

\* the aspect ratios the model selects
SelectedAspectRatios == {"1:1", "16:9"}

\* the style section missing from the list
FieldsetsWithoutStyle ==
  {"prompt-fieldset", "image-upload-fieldset", "face-swap-fieldset",
   "negative-prompt-fieldset", "aspect-ratio-fieldset"}

Fieldsets == {"prompt-fieldset", "image-upload-fieldset", "face-swap-fieldset",
              "negative-prompt-fieldset", "aspect-ratio-fieldset", "style-fieldset"}

NoAlert == "none"
NoRequest == [op |-> "none"]
NoFile == [name |-> ""]

\* ---------------------------------------------------------- input domains
Whitespace == {" ", "\t", "\n"}
Prompts == {<<>>, <<" ">>, <<" ", "a red bicycle">>, defaultImagenPrompt}
NegativePrompts == {<<>>, <<"blurry">>}
Styles == {<<>>, <<"Oil painting">>}

ImagePrefix == <<"image/">>

\* the files the user selects: two images, an image file of no bytes and a
\* text file (the files share one name)
FileA == [name |-> "upload", type |-> <<"image/", "png">>, bytes |-> <<65>>]
FileB == [name |-> "upload", type |-> <<"image/", "jpeg">>, bytes |-> <<66, 67>>]
FileE == [name |-> "upload", type |-> <<"image/", "png">>, bytes |-> <<>>]
FileT == [name |-> "upload", type |-> <<"text/", "plain">>, bytes |-> <<104>>]
Files == {FileA, FileB, FileE, FileT}

\* ------------------------------------------------------- string functions
RECURSIVE TrimStart(_)
TrimStart(s) ==
  IF s # <<>> /\ Head(s) \in Whitespace THEN TrimStart(Tail(s)) ELSE s

RECURSIVE TrimEnd(_)
TrimEnd(s) ==
  IF s # <<>> /\ s[Len(s)] \in Whitespace
  THEN TrimEnd(SubSeq(s, 1, Len(s) - 1))
  ELSE s

\* trim() left out: the prompt is tested as typed
TrimNothing(s) == s

Trim(s) == TrimEnd(TrimStart(s))

StartsWith(s, p) == Len(s) >= Len(p) /\ SubSeq(s, 1, Len(p)) = p

RECURSIVE Split(_, _)
Split(s, sep) ==
  IF \A i \in 1..Len(s) : s[i] # sep
  THEN <<s>>
  ELSE LET i == CHOOSE k \in 1..Len(s) :
                  s[k] = sep /\ \A j \in 1..(k - 1) : s[j] # sep
       IN <<SubSeq(s, 1, i - 1)>> \o Split(SubSeq(s, i + 1, Len(s)), sep)

\* arr[k] of a JavaScript array, k counted from 0
At(arr, k) == IF k + 1 <= Len(arr) THEN arr[k + 1] ELSE Undefined

B64Alphabet ==
  <<"A","B","C","D","E","F","G","H","I","J","K","L","M","N","O","P",
    "Q","R","S","T","U","V","W","X","Y","Z","a","b","c","d","e","f",
    "g","h","i","j","k","l","m","n","o","p","q","r","s","t","u","v",
    "w","x","y","z","0","1","2","3","4","5","6","7","8","9","+","/">>

B64(i) == B64Alphabet[i + 1]

RECURSIVE Base64(_)
Base64(b) ==
  IF Len(b) = 0 THEN ""
  ELSE IF Len(b) = 1
    THEN B64(b[1] \div 4) \o B64((b[1] % 4) * 16) \o "=="
  ELSE IF Len(b) = 2
    THEN B64(b[1] \div 4) \o B64((b[1] % 4) * 16 + b[2] \div 16)
         \o B64((b[2] % 16) * 4) \o "="
  ELSE B64(b[1] \div 4) \o B64((b[1] % 4) * 16 + b[2] \div 16)
       \o B64((b[2] % 16) * 4 + b[3] \div 64) \o B64(b[3] % 64)
       \o Base64(SubSeq(b, 4, Len(b)))

\* FileReader.readAsDataURL: "data:<type>;base64,<payload>"
readAsDataURL(file) ==
  LET payload == Base64(file.bytes)
  IN <<"data:">> \o file.type \o <<";base64", ",">>
       \o (IF payload = "" THEN <<>> ELSE <<payload>>)

\* the value fileToBase64 resolves with (reader.onload)
fileToBase64(file) ==
  [base64 |-> At(Split(readAsDataURL(file), ","), 1), mimeType |-> file.type]

\* only a file of no declared type is rejected
NotAnImageNoType(file) == file.type = <<>>

\* whether fileToBase64 rejects before reading
NotAnImage(file) == ~StartsWith(file.type, ImagePrefix)

\* ----------------------------------------------------------- upload slots
\* the two assignments of null left out
removeSingleUploadedImageKeepsImage(s) ==
  [s EXCEPT !.imageUploadInput = "",
            !.hidden = (@ \cup {"image-preview-container"}) \ {"drop-zone-wrapper"}]

removeSingleUploadedImage(s) ==
  [s EXCEPT !.uploadedImageBase64 = Null,
            !.uploadedImageMimeType = Null,
            !.imageUploadInput = "",
            !.hidden = (@ \cup {"image-preview-container"}) \ {"drop-zone-wrapper"}]

removeSourceImage(s) ==
  [s EXCEPT !.sourceImageBase64 = Null,
            !.sourceImageMimeType = Null,
            !.sourceImageUploadInput = "",
            !.hidden = (@ \cup {"source-image-preview-container"})
                         \ {"source-drop-zone-wrapper"}]

removeTargetImage(s) ==
  [s EXCEPT !.targetImageBase64 = Null,
            !.targetImageMimeType = Null,
            !.targetImageUploadInput = "",
            !.hidden = (@ \cup {"target-image-preview-container"})
                         \ {"target-drop-zone-wrapper"}]

\* the drop zone left shown
storeSingleFileKeepsDropZone(s, r) ==
  [s EXCEPT !.uploadedImageBase64 = r.base64,
            !.uploadedImageMimeType = r.mimeType,
            !.hidden = @ \ {"image-preview-container"}]

\* the part of handleSingleFile after the await, r the encoder's result
storeSingleFile(s, r) ==
  [s EXCEPT !.uploadedImageBase64 = r.base64,
            !.uploadedImageMimeType = r.mimeType,
            !.hidden = (@ \ {"image-preview-container"}) \cup {"drop-zone-wrapper"}]

storeSourceFile(s, r) ==
  [s EXCEPT !.sourceImageBase64 = r.base64,
            !.sourceImageMimeType = r.mimeType,
            !.hidden = (@ \ {"source-image-preview-container"})
                         \cup {"source-drop-zone-wrapper"}]

\* the MIME type written to the source slot
storeTargetFileSourceMime(s, r) ==
  [s EXCEPT !.targetImageBase64 = r.base64,
            !.sourceImageMimeType = r.mimeType,
            !.hidden = (@ \ {"target-image-preview-container"})
                         \cup {"target-drop-zone-wrapper"}]

storeTargetFile(s, r) ==
  [s EXCEPT !.targetImageBase64 = r.base64,
            !.targetImageMimeType = r.mimeType,
            !.hidden = (@ \ {"target-image-preview-container"})
                         \cup {"target-drop-zone-wrapper"}]

\* the call of removeTargetImage left out
clearAllKeepsTarget(s) ==
  removeSourceImage(removeSingleUploadedImage(
    [s EXCEPT !.promptInput = <<>>,
              !.negativePromptInput = <<>>,
              !.imageGallery = <<>>]))

clearAll(s) ==
  removeTargetImage(removeSourceImage(removeSingleUploadedImage(
    [s EXCEPT !.promptInput = <<>>,
              !.negativePromptInput = <<>>,
              !.imageGallery = <<>>])))

\* ---------------------------------------------------------- mode controller
updateUiForMode(s, mode) ==
  LET h == [s EXCEPT !.hidden = @ \cup Fieldsets]
  IN IF mode = "text-to-image" THEN
       removeTargetImage(removeSourceImage(removeSingleUploadedImage(
         [h EXCEPT !.hidden = @ \ {"prompt-fieldset", "negative-prompt-fieldset",
                                   "aspect-ratio-fieldset", "style-fieldset"}])))
     ELSE IF mode = "image-edit" THEN
       removeTargetImage(removeSourceImage(
         [h EXCEPT !.hidden = @ \ {"prompt-fieldset", "image-upload-fieldset"}]))
     ELSE IF mode = "image-upscale" THEN
       removeTargetImage(removeSourceImage(
         [h EXCEPT !.hidden = @ \ {"image-upload-fieldset"}]))
     ELSE IF mode = "face-swap" THEN
       removeSingleUploadedImage(
         [h EXCEPT !.hidden = @ \ {"face-swap-fieldset"}])
     ELSE h

\* ------------------------------------------------------- request dispatcher
InlinePart(data, mimeType) == [inlineData |-> [data |-> data, mimeType |-> mimeType]]
TextPart(text) == [text |-> text]

ContentRequest(parts) ==
  [op |-> "generateContent", model |-> imageEditModel, parts |-> parts,
   responseModalities |-> <<"IMAGE", "TEXT">>]

ImagesRequest(prompt, aspectRatio, negativePrompt) ==
  [op |-> "generateImages", model |-> textToImageModel, prompt |-> prompt,
   numberOfImages |-> NumberOfImages, outputMimeType |-> "image/png",
   aspectRatio |-> aspectRatio, negativePrompt |-> negativePrompt]

\* the check of line 83 left out
missingSingleImageNever(s) == FALSE

\* the check of line 83, of line 123 and of lines 92 and 153
missingSingleImage(s) ==
  ~Truthy(s.uploadedImageBase64) \/ ~Truthy(s.uploadedImageMimeType)

\* && for ||
missingBothFaceSwapImages(s) ==
  ~Truthy(s.sourceImageBase64) /\ ~Truthy(s.targetImageBase64)

missingFaceSwapImage(s) ==
  ~Truthy(s.sourceImageBase64) \/ ~Truthy(s.targetImageBase64)

blankPrompt(text) == ~Truthy(Trim(text))

\* promptForEdit of lines 89-99
promptForEdit(s) ==
  IF s.mode = "image-edit" THEN s.promptInput ELSE UpscaleInstruction

editRequest(s) ==
  ContentRequest(<<InlinePart(s.uploadedImageBase64, s.uploadedImageMimeType),
                   TextPart(promptForEdit(s))>>)

\* the prompt field for the fixed instruction
faceSwapRequestWithPrompt(s) ==
  ContentRequest(<<InlinePart(s.sourceImageBase64, s.sourceImageMimeType),
                   InlinePart(s.targetImageBase64, s.targetImageMimeType),
                   TextPart(s.promptInput)>>)

faceSwapRequest(s) ==
  ContentRequest(<<InlinePart(s.sourceImageBase64, s.sourceImageMimeType),
                   InlinePart(s.targetImageBase64, s.targetImageMimeType),
                   TextPart(FaceSwapInstruction)>>)

\* the trimmed prompt for the prompt as typed
finalPromptTrimmed(selectedStyle, userPrompt) ==
  IF Truthy(selectedStyle)
  THEN selectedStyle \o <<", ">> \o Trim(userPrompt)
  ELSE Trim(userPrompt)

finalPrompt(selectedStyle, userPrompt) ==
  IF Truthy(selectedStyle)
  THEN selectedStyle \o <<", ">> \o userPrompt
  ELSE userPrompt

textToImageRequest(s, selectedStyle, selectedAspectRatio) ==
  ImagesRequest(finalPrompt(selectedStyle, s.promptInput),
                selectedAspectRatio, s.negativePromptInput)

\* generate() up to its first await or its early return: the state it leaves,
\* the alert it shows and the request it hands to the SDK
generateStart(s, selectedStyle, selectedAspectRatio) ==
  LET g == [s EXCEPT !.imageGallery = <<>>, !.loading = TRUE]
      abort(msg) == [app |-> [g EXCEPT !.loading = FALSE], alert |-> msg,
                     sent |-> NoRequest]
      await(req) == [app |-> g, alert |-> NoAlert, sent |-> req]
  IN IF s.mode \in {"image-edit", "image-upscale"} THEN
       IF missingSingleImage(s) THEN
         abort(IF s.mode = "image-edit"
               THEN "Please upload an image for editing."
               ELSE "Please upload an image for upscaling.")
       ELSE IF s.mode = "image-edit" /\ blankPrompt(s.promptInput) THEN
         abort("Please enter a prompt for editing.")
       ELSE
         await(editRequest(s))
     ELSE IF s.mode = "face-swap" THEN
       IF missingFaceSwapImage(s) THEN
         abort("Please upload both a source face and a target image for face swap.")
       ELSE
         await(faceSwapRequest(s))
     ELSE
       IF blankPrompt(s.promptInput) THEN
         abort("Please enter a prompt.")
       ELSE
         await(textToImageRequest(s, selectedStyle, selectedAspectRatio))

\* ---------------------------------------------------------- gallery renderer
\* prepend for appendChild
prependImage(s, imageUrl) == [s EXCEPT !.imageGallery = <<imageUrl>> \o @]

appendImage(s, imageUrl) == [s EXCEPT !.imageGallery = Append(@, imageUrl)]

\* parts.forEach of the content-edit branches
RECURSIVE appendInlineParts(_, _)
appendInlineParts(s, parts) ==
  IF parts = <<>> THEN s
  ELSE LET part == Head(parts)
       IN appendInlineParts(
            IF "inlineData" \in DOMAIN part
            THEN appendImage(s, <<"data:">> \o part.inlineData.mimeType
                                  \o <<";base64,">> \o part.inlineData.data)
            ELSE s,
            Tail(parts))

\* generatedImages.forEach of the text-to-image branch; an entry without an
\* image makes image.image.imageBytes throw, which ends the loop there
RECURSIVE appendGeneratedImages(_, _)
appendGeneratedImages(s, images) ==
  IF images = <<>> THEN [app |-> s, threw |-> FALSE]
  ELSE LET image == Head(images)
       IN IF "image" \in DOMAIN image
          THEN appendGeneratedImages(
                 appendImage(s, <<"data:image/png;base64,">> \o image.image.imageBytes),
                 Tail(images))
          ELSE [app |-> s, threw |-> TRUE]

GenericError == "An error occurred while generating images. Check the console for details."

\* the finally block left out
generateEndKeepsLoading(r) ==
  [app |-> r.app,
   alert |-> IF r.threw THEN GenericError ELSE NoAlert]

\* catch and finally of generate()
generateEnd(r) ==
  [app |-> [r.app EXCEPT !.loading = FALSE],
   alert |-> IF r.threw THEN GenericError ELSE NoAlert]

\* generate() from the await of a content-edit call on, the call resolved
resumeContent(s, response) ==
  generateEnd(
    IF "candidates" \in DOMAIN response /\ response.candidates # <<>>
    THEN [app |-> appendInlineParts(s, response.candidates[1]), threw |-> FALSE]
    ELSE [app |-> s, threw |-> TRUE])

\* the gallery emptied again before the images are appended
resumeImagesReplaces(s, response) ==
  generateEnd(
    IF "generatedImages" \in DOMAIN response
    THEN appendGeneratedImages([s EXCEPT !.imageGallery = <<>>],
                               response.generatedImages)
    ELSE [app |-> s, threw |-> TRUE])

\* generate() from the await of the image-generation call on, the call resolved
resumeImages(s, response) ==
  generateEnd(
    IF "generatedImages" \in DOMAIN response
    THEN appendGeneratedImages(s, response.generatedImages)
    ELSE [app |-> s, threw |-> TRUE])

\* generate() from either await on, the call rejected
resumeRejected(s) == generateEnd([app |-> s, threw |-> TRUE])

\* -------------------------------------------------------------------- state
Visible(id) == id \notin app.hidden

\* a listener runs on a user event
UserEvent(listener) ==
  events < MaxEvents /\ events' = events + 1 /\ last' = listener

\* a continuation runs when what it awaits settles
Continuation(name) == events' = events /\ last' = name /\ selected' = selected

\* the user hands a file to a slot: an image file is the slot's selection from
\* now on
select(slot, file) ==
  selected' = [selected EXCEPT ![slot] =
                 IF StartsWith(file.type, ImagePrefix) THEN file ELSE @]

\* the user clears the slots
clear(slots) ==
  selected' = [slot \in DOMAIN selected |->
                 IF slot \in slots THEN NoFile ELSE selected[slot]]

\* the slots a switch to the mode invalidates
Invalidated(mode) ==
  IF mode = "text-to-image" THEN {"single", "source", "target"}
  ELSE IF mode = "face-swap" THEN {"single"}
  ELSE {"source", "target"}

\* index.tsx as loaded: the globals' initializers, then lines 393-394
Init ==
  /\ app = updateUiForMode(
             [mode |-> "text-to-image",
              promptInput |-> defaultImagenPrompt,
              negativePromptInput |-> <<>>,
              uploadedImageBase64 |-> Null, uploadedImageMimeType |-> Null,
              sourceImageBase64 |-> Null, sourceImageMimeType |-> Null,
              targetImageBase64 |-> Null, targetImageMimeType |-> Null,
              imageUploadInput |-> "", sourceImageUploadInput |-> "",
              targetImageUploadInput |-> "",
              hidden |-> {},
              imageGallery |-> <<>>,
              loading |-> FALSE],
             "text-to-image")
  /\ reads = EmptyBag
  /\ calls = EmptyBag
  /\ alerted = NoAlert
  /\ sent = NoRequest
  /\ events = 0
  /\ last = "init"
  /\ selected = [single |-> NoFile, source |-> NoFile, target |-> NoFile]

\* ------------------------------------------------------------ file handlers
\* handleXFile up to its await: fileToBase64 rejects a file that is no image
\* at once (the catch alerts), and starts a FileReader read otherwise
startRead(s, handler, file) ==
  IF NotAnImage(file)
  THEN /\ app' = s
       /\ alerted' = "File is not an image."
       /\ UNCHANGED reads
  ELSE /\ app' = s
       /\ alerted' = NoAlert
       /\ reads' = reads (+) SetToBag({[handler |-> handler, file |-> file]})

handleSingleFile(s, file) == startRead(s, "handleSingleFile", file)
handleSourceFile(s, file) == startRead(s, "handleSourceFile", file)
handleTargetFile(s, file) == startRead(s, "handleTargetFile", file)

\* change listeners of the three file inputs (the browser has set the value)
changeImageUploadInputFile(file) ==
  /\ UserEvent("changeImageUploadInput")
  /\ Visible("image-upload-fieldset")
  /\ handleSingleFile([app EXCEPT !.imageUploadInput = file.name], file)
  /\ select("single", file)
  /\ sent' = NoRequest
  /\ UNCHANGED calls

changeImageUploadInput == \E file \in Files : changeImageUploadInputFile(file)

changeSourceImageUploadInputFile(file) ==
  /\ UserEvent("changeSourceImageUploadInput")
  /\ Visible("face-swap-fieldset")
  /\ handleSourceFile([app EXCEPT !.sourceImageUploadInput = file.name], file)
  /\ select("source", file)
  /\ sent' = NoRequest
  /\ UNCHANGED calls

changeSourceImageUploadInput == \E file \in Files : changeSourceImageUploadInputFile(file)

changeTargetImageUploadInputFile(file) ==
  /\ UserEvent("changeTargetImageUploadInput")
  /\ Visible("face-swap-fieldset")
  /\ handleTargetFile([app EXCEPT !.targetImageUploadInput = file.name], file)
  /\ select("target", file)
  /\ sent' = NoRequest
  /\ UNCHANGED calls

changeTargetImageUploadInput == \E file \in Files : changeTargetImageUploadInputFile(file)

\* drop listeners set up by setupDragAndDrop
dropOnDropZoneFile(file) ==
  /\ UserEvent("dropOnDropZone")
  /\ Visible("image-upload-fieldset") /\ Visible("drop-zone-wrapper")
  /\ handleSingleFile(app, file)
  /\ select("single", file)
  /\ sent' = NoRequest
  /\ UNCHANGED calls

dropOnDropZone == \E file \in Files : dropOnDropZoneFile(file)

dropOnSourceDropZoneFile(file) ==
  /\ UserEvent("dropOnSourceDropZone")
  /\ Visible("face-swap-fieldset") /\ Visible("source-drop-zone-wrapper")
  /\ handleSourceFile(app, file)
  /\ select("source", file)
  /\ sent' = NoRequest
  /\ UNCHANGED calls

dropOnSourceDropZone == \E file \in Files : dropOnSourceDropZoneFile(file)

dropOnTargetDropZoneFile(file) ==
  /\ UserEvent("dropOnTargetDropZone")
  /\ Visible("face-swap-fieldset") /\ Visible("target-drop-zone-wrapper")
  /\ handleTargetFile(app, file)
  /\ select("target", file)
  /\ sent' = NoRequest
  /\ UNCHANGED calls

dropOnTargetDropZone == \E file \in Files : dropOnTargetDropZoneFile(file)

\* reader.onload: fileToBase64 resolves and the handler that awaits it goes on
readerOnload ==
  /\ Continuation("readerOnload")
  /\ \E r \in BagToSet(reads) :
       LET result == fileToBase64(r.file)
       IN /\ app' = IF r.handler = "handleSingleFile" THEN storeSingleFile(app, result)
                    ELSE IF r.handler = "handleSourceFile" THEN storeSourceFile(app, result)
                    ELSE storeTargetFile(app, result)
          /\ reads' = reads (-) SetToBag({r})
          /\ alerted' = NoAlert
          /\ sent' = NoRequest
          /\ UNCHANGED calls

\* reader.onerror: fileToBase64 rejects with the event, whose message is undefined
readerOnerror ==
  /\ Continuation("readerOnerror")
  /\ \E r \in BagToSet(reads) :
       /\ reads' = reads (-) SetToBag({r})
       /\ alerted' = "undefined"
       /\ sent' = NoRequest
       /\ UNCHANGED <<app, calls>>

\* ---------------------------------------------------------- click listeners
clickRemoveImageBtn ==
  /\ UserEvent("clickRemoveImageBtn")
  /\ Visible("image-upload-fieldset")
  /\ app' = removeSingleUploadedImage(app)
  /\ clear({"single"})
  /\ alerted' = NoAlert /\ sent' = NoRequest
  /\ UNCHANGED <<reads, calls>>

clickRemoveSourceImageBtn ==
  /\ UserEvent("clickRemoveSourceImageBtn")
  /\ Visible("face-swap-fieldset")
  /\ app' = removeSourceImage(app)
  /\ clear({"source"})
  /\ alerted' = NoAlert /\ sent' = NoRequest
  /\ UNCHANGED <<reads, calls>>

clickRemoveTargetImageBtn ==
  /\ UserEvent("clickRemoveTargetImageBtn")
  /\ Visible("face-swap-fieldset")
  /\ app' = removeTargetImage(app)
  /\ clear({"target"})
  /\ alerted' = NoAlert /\ sent' = NoRequest
  /\ UNCHANGED <<reads, calls>>

\* the calls in flight dropped
clickClearBtnCancels ==
  /\ UserEvent("clickClearBtn")
  /\ app' = clearAll(app)
  /\ clear({"single", "source", "target"})
  /\ alerted' = NoAlert /\ sent' = NoRequest
  /\ calls' = EmptyBag
  /\ UNCHANGED reads

clickClearBtn ==
  /\ UserEvent("clickClearBtn")
  /\ app' = clearAll(app)
  /\ clear({"single", "source", "target"})
  /\ alerted' = NoAlert /\ sent' = NoRequest
  /\ UNCHANGED <<reads, calls>>

\* change listener of the mode radios (the browser has checked the radio)
changeMode ==
  /\ UserEvent("changeMode")
  /\ \E mode \in Modes :
       /\ mode # app.mode
       /\ app' = updateUiForMode([app EXCEPT !.mode = mode], mode)
       /\ clear(Invalidated(mode))
       /\ alerted' = NoAlert /\ sent' = NoRequest
       /\ UNCHANGED <<reads, calls>>

\* the user edits the prompt and the negative prompt
inputPrompt ==
  /\ UserEvent("inputPrompt")
  /\ \E text \in Prompts :
       /\ Visible("prompt-fieldset")
       /\ text # app.promptInput
       /\ app' = [app EXCEPT !.promptInput = text]
       /\ alerted' = NoAlert /\ sent' = NoRequest
       /\ UNCHANGED <<reads, calls, selected>>

inputNegativePrompt ==
  /\ UserEvent("inputNegativePrompt")
  /\ \E text \in NegativePrompts :
       /\ Visible("negative-prompt-fieldset")
       /\ text # app.negativePromptInput
       /\ app' = [app EXCEPT !.negativePromptInput = text]
       /\ alerted' = NoAlert /\ sent' = NoRequest
       /\ UNCHANGED <<reads, calls, selected>>

\* ----------------------------------------------------------------- generate
\* submit listener: generate() up to its first await or early return
submitWith(selectedStyle, selectedAspectRatio) ==
  LET r == generateStart(app, selectedStyle, selectedAspectRatio)
  IN /\ UserEvent("submit")
     /\ app' = r.app
     /\ alerted' = r.alert
     /\ sent' = r.sent
     /\ calls' = IF r.sent.op = "none" THEN calls
                 ELSE calls (+) SetToBag({r.sent.op})
     /\ UNCHANGED <<reads, selected>>

\* the style and aspect-ratio radios are read by generate() alone: the model
\* draws their values at the submit
submit ==
  \E selectedStyle \in Styles, selectedAspectRatio \in SelectedAspectRatios :
    submitWith(selectedStyle, selectedAspectRatio)

\* the responses the remote API gives
OutPart(n) == InlinePart(<<n>>, <<"image/png">>)
ContentResponses ==
  { [candidates |-> << <<OutPart("out1"), TextPart(<<"Here you are.">>), OutPart("out2")>> >>],
    [candidates |-> << <<TextPart(<<"I cannot do that.">>)>> >>],
    [candidates |-> <<>>] }

GenImage(n) == [image |-> [imageBytes |-> <<n>>]]
ImagesResponses ==
  { [generatedImages |-> <<GenImage("gen1"), GenImage("gen2"), GenImage("gen3"), GenImage("gen4")>>],
    [generatedImages |-> <<GenImage("gen1"), [raiFilteredReason |-> "filtered"]>>],
    [positivePromptSafetyAttributes |-> "blocked"] }

\* a remote call resolves and the generate() that awaits it goes on
Responses(op) ==
  IF op = "generateContent" THEN ContentResponses ELSE ImagesResponses

callResolvesWith(op, response) ==
  LET r == IF op = "generateContent" THEN resumeContent(app, response)
           ELSE resumeImages(app, response)
  IN /\ Continuation("callResolves")
     /\ BagIn(op, calls)
     /\ app' = r.app
     /\ alerted' = r.alert
     /\ calls' = calls (-) SetToBag({op})
     /\ sent' = NoRequest
     /\ UNCHANGED reads

callResolves ==
  \E op \in BagToSet(calls) : \E response \in Responses(op) :
    callResolvesWith(op, response)

\* the rejected call issued again
callRejectsRetries ==
  /\ Continuation("callRejects")
  /\ \E op \in BagToSet(calls) :
       LET r == resumeRejected(app)
       IN /\ app' = r.app
          /\ alerted' = r.alert
          /\ calls' = calls
          /\ sent' = NoRequest
          /\ UNCHANGED reads

\* a remote call rejects and the generate() that awaits it goes on
callRejects ==
  /\ Continuation("callRejects")
  /\ \E op \in BagToSet(calls) :
       LET r == resumeRejected(app)
       IN /\ app' = r.app
          /\ alerted' = r.alert
          /\ calls' = calls (-) SetToBag({op})
          /\ sent' = NoRequest
          /\ UNCHANGED reads

Next ==
  \/ changeImageUploadInput
  \/ changeSourceImageUploadInput
  \/ changeTargetImageUploadInput
  \/ dropOnDropZone
  \/ dropOnSourceDropZone
  \/ dropOnTargetDropZone
  \/ readerOnload
  \/ readerOnerror
  \/ clickRemoveImageBtn
  \/ clickRemoveSourceImageBtn
  \/ clickRemoveTargetImageBtn
  \/ clickClearBtn
  \/ changeMode
  \/ inputPrompt
  \/ inputNegativePrompt
  \/ submit
  \/ callResolves
  \/ callRejects

Spec == Init /\ [][Next]_vars

\* ------------------------------------------------------------------- claims
WhitespaceOnly(text) == \A i \in 1..Len(text) : text[i] \in Whitespace

SingleSlotEmpty ==
  app.uploadedImageBase64 = Null /\ app.uploadedImageMimeType = Null
SourceSlotEmpty ==
  app.sourceImageBase64 = Null /\ app.sourceImageMimeType = Null
TargetSlotEmpty ==
  app.targetImageBase64 = Null /\ app.targetImageMimeType = Null

NoCallIssued == calls' = calls /\ sent' = NoRequest

BlankPromptCase ==
  /\ WhitespaceOnly(app.promptInput)
  /\ \/ app.mode = "text-to-image"
     \/ app.mode = "image-edit" /\ app.uploadedImageBase64 # Null

\* C1: a submit in TextToImage mode, or in ImageEdit mode with a single image
\* present, whose prompt is empty or whitespace-only issues no remote call:
\* the calls in flight are unchanged by it and no request is sent.
C1_BlankPromptNoCall == [][submit /\ BlankPromptCase => NoCallIssued]_vars

\* a submit in ImageEdit mode, an image uploaded and the prompt one blank,
\* has been refused
C1_Witness ==
  /\ last = "submit"
  /\ app.mode = "image-edit"
  /\ app.uploadedImageBase64 = <<"QQ==">>
  /\ app.promptInput = <<" ">>
  /\ alerted = "Please enter a prompt for editing."

MissingImageCase ==
  \/ app.mode \in {"image-edit", "image-upscale"} /\ app.uploadedImageBase64 = Null
  \/ app.mode = "face-swap"
       /\ (app.sourceImageBase64 = Null \/ app.targetImageBase64 = Null)

\* C2: a submit in ImageEdit or ImageUpscale mode while the single-image slot
\* is empty, or in FaceSwap mode while the source or the target slot is empty,
\* issues no remote call.
C2_MissingImageNoCall == [][submit /\ MissingImageCase => NoCallIssued]_vars

\* a FaceSwap submit with the source uploaded and the target missing has been
\* refused
C2_Witness ==
  /\ last = "submit"
  /\ app.mode = "face-swap"
  /\ app.sourceImageBase64 = <<"QQ==">>
  /\ app.targetImageBase64 = Null
  /\ alerted = "Please upload both a source face and a target image for face swap."

\* C3: right after a mode switch, a switch to FaceSwap leaves the single-image
\* slot empty, a switch to any other mode leaves the source and the target
\* slot empty, and a switch to TextToImage leaves all three slots empty.
C3_ModeSwitchClearsSlots ==
  last = "changeMode" =>
    /\ app.mode = "face-swap" => SingleSlotEmpty
    /\ app.mode # "face-swap" => SourceSlotEmpty /\ TargetSlotEmpty
    /\ app.mode = "text-to-image" =>
         SingleSlotEmpty /\ SourceSlotEmpty /\ TargetSlotEmpty

\* the fourth user event is a switch to FaceSwap and the gallery shows the
\* output of a content-edit call: the three events before it were a switch to
\* ImageEdit or ImageUpscale, an upload to the single-image slot and a submit,
\* so the slot was filled when the mode was switched
C3_Witness ==
  /\ last = "changeMode"
  /\ events = 4
  /\ app.mode = "face-swap"
  /\ app.imageGallery # <<>>
  /\ app.imageGallery[1] = <<"data:", "image/png", ";base64,", "out1">>
  /\ SingleSlotEmpty

\* C4: at every moment each upload slot that is not relevant to the selected
\* mode is empty: all three in TextToImage, source and target in ImageEdit and
\* ImageUpscale, the single-image slot in FaceSwap.
C4_IrrelevantSlotsEmpty ==
  /\ app.mode = "text-to-image" =>
       SingleSlotEmpty /\ SourceSlotEmpty /\ TargetSlotEmpty
  /\ app.mode \in {"image-edit", "image-upscale"} =>
       SourceSlotEmpty /\ TargetSlotEmpty
  /\ app.mode = "face-swap" => SingleSlotEmpty

\* every remote call in flight resolves or rejects in the end
FairSpec == Spec /\ WF_vars(callResolves \/ callRejects)

\* C5: every generation cycle clears the loading indicator on every exit
\* path: a submit that fails validation leaves it cleared, the continuation of
\* a resolved or rejected call leaves it cleared, whenever no call is in
\* flight it is not set, and once set it is cleared in the end (every call in
\* flight resolving or rejecting in the end).
C5_LoadingCleared ==
  /\ [](last = "submit" /\ sent = NoRequest => ~app.loading)
  /\ [](last \in {"callResolves", "callRejects"} => ~app.loading)
  /\ [](calls = EmptyBag => ~app.loading)
  /\ (app.loading ~> ~app.loading)

\* a cycle whose extraction threw has ended, the loading indicator cleared
C5_Witness ==
  /\ last = "callResolves"
  /\ alerted = GenericError
  /\ calls = EmptyBag
  /\ ~app.loading

\* C6: right after the clear-all action the gallery is empty, the three slots
\* are empty with the preview hidden and the drop zone shown, and the prompt
\* and the negative prompt are the empty string.
C6_ClearAllResets ==
  last = "clickClearBtn" =>
    /\ app.imageGallery = <<>>
    /\ SingleSlotEmpty /\ SourceSlotEmpty /\ TargetSlotEmpty
    /\ {"image-preview-container", "source-image-preview-container",
        "target-image-preview-container"} \subseteq app.hidden
    /\ {"drop-zone-wrapper", "source-drop-zone-wrapper",
        "target-drop-zone-wrapper"} \cap app.hidden = {}
    /\ app.promptInput = <<>>
    /\ app.negativePromptInput = <<>>

\* the fourth user event is the clear-all, in ImageEdit mode with a
\* content-edit call in flight: the three events before it were the switch to
\* ImageEdit, an upload and the submit, so the single-image slot was filled
\* and the prompt was not empty when clear-all ran
C6_Witness ==
  /\ last = "clickClearBtn"
  /\ events = 4
  /\ app.mode = "image-edit"
  /\ BagIn("generateContent", calls)
  /\ SingleSlotEmpty
  /\ app.promptInput = <<>>

DeclaredImage(file) == file.type # <<>> /\ file.type[1] = "image/"

SetOnSlot(file) ==
  \/ changeImageUploadInputFile(file) \/ dropOnDropZoneFile(file)
  \/ changeSourceImageUploadInputFile(file) \/ dropOnSourceDropZoneFile(file)
  \/ changeTargetImageUploadInputFile(file) \/ dropOnTargetDropZoneFile(file)

SlotsAndFlags(s) ==
  <<s.uploadedImageBase64, s.uploadedImageMimeType,
    s.sourceImageBase64, s.sourceImageMimeType,
    s.targetImageBase64, s.targetImageMimeType, s.hidden>>

\* C7: setting a file whose declared type does not start with "image/" on any
\* slot shows the not-an-image error, starts no read, and leaves the stored
\* image, the MIME type and the preview and drop-zone visibility of every
\* slot, the gallery and the mode as they were.
C7_NotAnImageRejected ==
  [][\A file \in Files :
       SetOnSlot(file) /\ ~DeclaredImage(file) =>
         /\ alerted' = "File is not an image."
         /\ reads' = reads
         /\ SlotsAndFlags(app') = SlotsAndFlags(app)
         /\ app'.imageGallery = app.imageGallery
         /\ app'.loading = app.loading
         /\ app'.mode = app.mode]_vars

\* a text file chosen for the source slot has been refused, the slot keeping
\* the image it held
C7_Witness ==
  /\ last = "changeSourceImageUploadInput"
  /\ alerted = "File is not an image."
  /\ app.sourceImageBase64 = <<"QQ==">>
  /\ app.sourceImageMimeType = <<"image/", "png">>
  /\ "source-image-preview-container" \notin app.hidden

HasInlineData(part) == "inlineData" \in DOMAIN part
HasImage(entry) == "image" \in DOMAIN entry

\* a response the extraction reads without throwing
WellFormed(op, response) ==
  IF op = "generateContent"
  THEN "candidates" \in DOMAIN response /\ response.candidates # <<>>
  ELSE /\ "generatedImages" \in DOMAIN response
       /\ \A i \in 1..Len(response.generatedImages) :
            HasImage(response.generatedImages[i])

\* one data URL per returned image, in response order
ReturnedImages(op, response) ==
  IF op = "generateContent"
  THEN LET inline == SelectSeq(response.candidates[1], HasInlineData)
       IN [i \in 1..Len(inline) |->
             <<"data:">> \o inline[i].inlineData.mimeType \o <<";base64,">>
               \o inline[i].inlineData.data]
  ELSE [i \in 1..Len(response.generatedImages) |->
          <<"data:image/png;base64,">> \o response.generatedImages[i].image.imageBytes]

\* C8: when the remote call of a generation cycle that overlaps no other cycle
\* (it is the only call in flight and nothing was appended since its submit
\* cleared the gallery) resolves with a well-formed response, the gallery holds
\* exactly one entry per returned image, in response order: one per
\* generated-image entry for TextToImage, one per part with inline data for
\* the content-edit modes, the other parts skipped.
C8_GalleryHoldsReturnedImages ==
  [][\A op \in {"generateContent", "generateImages"} :
       \A response \in Responses(op) :
         /\ callResolvesWith(op, response)
         /\ calls = SetToBag({op})
         /\ app.imageGallery = <<>>
         /\ WellFormed(op, response)
         => app'.imageGallery = ReturnedImages(op, response)]_vars

\* a content-edit cycle has ended with the two inline images of a response of
\* three parts in the gallery, in response order
C8_Witness ==
  /\ last = "callResolves"
  /\ calls = EmptyBag
  /\ alerted = NoAlert
  /\ app.mode = "image-edit"
  /\ app.imageGallery = << <<"data:", "image/png", ";base64,", "out1">>,
                           <<"data:", "image/png", ";base64,", "out2">> >>

\* C9: a TextToImage submit with a non-blank prompt issues an image-generation
\* call whose prompt is the style, ", " and the prompt as typed when a style
\* is selected, the prompt as typed (untrimmed) when none is, and whose image
\* count is 4.
C9_TextToImageRequest ==
  [][\A selectedStyle \in Styles, selectedAspectRatio \in SelectedAspectRatios :
       /\ submitWith(selectedStyle, selectedAspectRatio)
       /\ app.mode = "text-to-image"
       /\ ~WhitespaceOnly(app.promptInput)
       => /\ sent'.op = "generateImages"
          /\ sent'.prompt = IF selectedStyle # <<>>
                            THEN selectedStyle \o <<", ">> \o app.promptInput
                            ELSE app.promptInput
          /\ sent'.numberOfImages = 4
          /\ calls' = calls (+) SetToBag({"generateImages"})]_vars

\* a styled request has been sent for a prompt that starts with a blank
C9_Witness ==
  /\ last = "submit"
  /\ app.mode = "text-to-image"
  /\ sent.op = "generateImages"
  /\ sent.prompt = <<"Oil painting", ", ", " ", "a red bicycle">>

NotNull(x) == x # Null
NotEmpty(x) == x # Null /\ x # <<>>

FixedInstructionCase ==
  \/ app.mode = "face-swap"
       /\ NotNull(app.sourceImageBase64) /\ NotNull(app.targetImageBase64)
  \/ app.mode = "image-upscale" /\ NotNull(app.uploadedImageBase64)

FixedInstructionCaseNotEmpty ==
  \/ app.mode = "face-swap"
       /\ NotEmpty(app.sourceImageBase64) /\ NotEmpty(app.targetImageBase64)
  \/ app.mode = "image-upscale" /\ NotEmpty(app.uploadedImageBase64)

FixedRequestSent ==
  /\ app.mode = "face-swap" =>
       /\ sent'.op = "generateContent"
       /\ sent'.parts =
            <<[inlineData |-> [data |-> app.sourceImageBase64,
                               mimeType |-> app.sourceImageMimeType]],
              [inlineData |-> [data |-> app.targetImageBase64,
                               mimeType |-> app.targetImageMimeType]],
              [text |-> FaceSwapInstruction]>>
  /\ app.mode = "image-upscale" =>
       /\ sent'.op = "generateContent"
       /\ sent'.parts =
            <<[inlineData |-> [data |-> app.uploadedImageBase64,
                               mimeType |-> app.uploadedImageMimeType]],
              [text |-> UpscaleInstruction]>>
  /\ calls' = calls (+) SetToBag({"generateContent"})

CallsInFlight == BagCardinality(calls)

CycleEndsInError == (callResolves \/ callRejects) /\ alerted' = GenericError

\* C11: when the remote call of a generation cycle that overlaps no other
\* cycle (it is the only call in flight and the gallery is as its submit left
\* it, empty) ends in an error, the call rejected or the response one the
\* extraction throws on, the gallery is empty.
C11_FailedCycleEmptyGallery ==
  [][CycleEndsInError /\ CallsInFlight = 1 /\ app.imageGallery = <<>>
       => app'.imageGallery = <<>>]_vars

\* C12: a step puts at most one remote call in flight and only a submit does
\* (it is the step that hands a request to the SDK); a call that fails, by
\* rejecting or by a response the extraction throws on, shows the generic
\* failure message, leaves flight and is not issued again; no other step
\* shows that message.
C12_OneCallNoRetry ==
  [][/\ CallsInFlight' <= CallsInFlight + 1
     /\ CallsInFlight' > CallsInFlight => last' = "submit" /\ sent' # NoRequest
     /\ last' # "submit" => sent' = NoRequest
     /\ \A op \in {"generateContent", "generateImages"} :
          \A response \in Responses(op) :
            callResolvesWith(op, response) /\ ~WellFormed(op, response) =>
              /\ alerted' = GenericError
              /\ calls' = calls (-) SetToBag({op})
     /\ callRejects =>
          /\ alerted' = GenericError
          /\ CallsInFlight' = CallsInFlight - 1
     /\ alerted' = GenericError =>
          /\ last' \in {"callResolves", "callRejects"}
          /\ CallsInFlight' = CallsInFlight - 1]_vars

\* the only call in flight has been rejected: the message is shown, nothing is
\* in flight and nothing was sent
C12_Witness ==
  /\ last = "callRejects"
  /\ alerted = GenericError
  /\ calls = EmptyBag
  /\ sent = NoRequest
  /\ events = 1

SingleSlot(s) ==
  <<s.uploadedImageBase64, s.uploadedImageMimeType, s.imageUploadInput,
    s.hidden \cap {"image-preview-container", "drop-zone-wrapper"}>>
SourceSlot(s) ==
  <<s.sourceImageBase64, s.sourceImageMimeType, s.sourceImageUploadInput,
    s.hidden \cap {"source-image-preview-container", "source-drop-zone-wrapper"}>>
TargetSlot(s) ==
  <<s.targetImageBase64, s.targetImageMimeType, s.targetImageUploadInput,
    s.hidden \cap {"target-image-preview-container", "target-drop-zone-wrapper"}>>
OutsideSlots(s) == <<s.imageGallery, s.loading, s.mode>>

\* the read a handler awaits completes
ReadDone(handler) ==
  /\ readerOnload
  /\ \E r \in BagToSet(reads) :
       r.handler = handler /\ reads' = reads (-) SetToBag({r})

OnSingleSlot ==
  \/ clickRemoveImageBtn \/ changeImageUploadInput \/ dropOnDropZone
  \/ ReadDone("handleSingleFile")
OnSourceSlot ==
  \/ clickRemoveSourceImageBtn \/ changeSourceImageUploadInput
  \/ dropOnSourceDropZone \/ ReadDone("handleSourceFile")
OnTargetSlot ==
  \/ clickRemoveTargetImageBtn \/ changeTargetImageUploadInput
  \/ dropOnTargetDropZone \/ ReadDone("handleTargetFile")

\* C13: a removal on one slot, and a set on one slot (the choice or drop of
\* the file and the completion of its read), leave the stored image, the MIME
\* type, the file input and the preview and drop-zone flags of the other two
\* slots, the gallery, the loading flag and the mode as they were.
C13_SlotsIndependent ==
  [][/\ OnSingleSlot =>
          /\ SourceSlot(app') = SourceSlot(app)
          /\ TargetSlot(app') = TargetSlot(app)
          /\ OutsideSlots(app') = OutsideSlots(app)
     /\ OnSourceSlot =>
          /\ SingleSlot(app') = SingleSlot(app)
          /\ TargetSlot(app') = TargetSlot(app)
          /\ OutsideSlots(app') = OutsideSlots(app)
     /\ OnTargetSlot =>
          /\ SingleSlot(app') = SingleSlot(app)
          /\ SourceSlot(app') = SourceSlot(app)
          /\ OutsideSlots(app') = OutsideSlots(app)]_vars

\* the read of the target image has completed while the source slot held
\* another image, which it still holds
C13_Witness ==
  /\ last = "readerOnload"
  /\ selected.target = FileB
  /\ app.targetImageBase64 = <<"QkM=">>
  /\ app.targetImageMimeType = <<"image/", "jpeg">>
  /\ app.sourceImageBase64 = <<"QQ==">>
  /\ app.sourceImageMimeType = <<"image/", "png">>
  /\ reads = EmptyBag

AllSections ==
  {"prompt-fieldset", "negative-prompt-fieldset", "aspect-ratio-fieldset",
   "style-fieldset", "image-upload-fieldset", "face-swap-fieldset"}

Sections(mode) ==
  IF mode = "text-to-image"
    THEN {"prompt-fieldset", "negative-prompt-fieldset", "aspect-ratio-fieldset",
          "style-fieldset"}
  ELSE IF mode = "image-edit" THEN {"prompt-fieldset", "image-upload-fieldset"}
  ELSE IF mode = "image-upscale" THEN {"image-upload-fieldset"}
  ELSE {"face-swap-fieldset"}

\* C14: in every state, so after initialization, after every mode switch and
\* after every other operation, the visible mode-specific sections are exactly
\* the row of the selected mode (the mode last passed to updateUiForMode) in
\* the table, and before the first user event the mode is TextToImage.
C14_SectionVisibility ==
  /\ AllSections \ app.hidden = Sections(app.mode)
  /\ events = 0 => app.mode = "text-to-image"

\* after a switch to ImageUpscale, the third user event, only the
\* single-image section is visible
C14_Witness ==
  /\ last = "changeMode"
  /\ events = 3
  /\ app.mode = "image-upscale"
  /\ AllSections \ app.hidden = {"image-upload-fieldset"}

\* C15: for each slot, in every state, exactly one of the preview and the drop
\* zone is shown, and the preview is the one shown exactly when the slot holds
\* an image (its stored image is not null).
C15_PreviewOrDropZone ==
  /\ Visible("image-preview-container") # Visible("drop-zone-wrapper")
  /\ Visible("image-preview-container") <=> app.uploadedImageBase64 # Null
  /\ Visible("source-image-preview-container") # Visible("source-drop-zone-wrapper")
  /\ Visible("source-image-preview-container") <=> app.sourceImageBase64 # Null
  /\ Visible("target-image-preview-container") # Visible("target-drop-zone-wrapper")
  /\ Visible("target-image-preview-container") <=> app.targetImageBase64 # Null

\* the single-image slot holds the image of a file of no bytes, the preview
\* shown and the drop zone hidden
C15_Witness ==
  /\ app.uploadedImageBase64 = <<>>
  /\ app.uploadedImageMimeType = <<"image/", "png">>
  /\ Visible("image-preview-container")
  /\ ~Visible("drop-zone-wrapper")

\* inputs that pass the validation of the selected mode
ValidInputs ==
  \/ app.mode = "text-to-image" /\ ~WhitespaceOnly(app.promptInput)
  \/ app.mode = "image-edit" /\ ~WhitespaceOnly(app.promptInput)
       /\ NotEmpty(app.uploadedImageBase64)
  \/ FixedInstructionCaseNotEmpty

\* C16: a submit made while an earlier cycle's call is in flight is carried
\* out like any other: it empties the gallery and, its inputs valid, puts its
\* own call in flight beside the pending ones; and a call that resolves with a
\* well-formed response has its images appended to whatever the gallery holds
\* by then, so that the gallery can hold the images of two cycles.
C16_OverlappingSubmits ==
  [][/\ submit /\ calls # EmptyBag =>
          /\ app'.imageGallery = <<>>
          /\ ValidInputs =>
               /\ sent' # NoRequest
               /\ calls' = calls (+) SetToBag({sent'.op})
     /\ \A op \in {"generateContent", "generateImages"} :
          \A response \in Responses(op) :
            callResolvesWith(op, response) /\ WellFormed(op, response) =>
              app'.imageGallery =
                app.imageGallery \o ReturnedImages(op, response)]_vars

\* two user events, both of them submits, and both calls resolved: the gallery
\* holds the four images of the first cycle and the four of the second
C16_Witness ==
  /\ events = 2
  /\ calls = EmptyBag
  /\ Len(app.imageGallery) = 8
  /\ app.imageGallery[1] = <<"data:image/png;base64,", "gen1">>
  /\ app.imageGallery[5] = <<"data:image/png;base64,", "gen1">>

NotASubmit ==
  \/ changeMode \/ clickClearBtn
  \/ clickRemoveImageBtn \/ clickRemoveSourceImageBtn \/ clickRemoveTargetImageBtn

\* C17: a mode switch, a slot removal and a clear-all leave the calls in
\* flight as they are, and a call that resolves with a well-formed response
\* right after one of them still has its images appended to the gallery.
C17_NoCancellation ==
  [][/\ NotASubmit => calls' = calls
     /\ \A op \in {"generateContent", "generateImages"} :
          \A response \in Responses(op) :
            /\ callResolvesWith(op, response)
            /\ WellFormed(op, response)
            /\ last \in {"changeMode", "clickClearBtn", "clickRemoveImageBtn",
                         "clickRemoveSourceImageBtn", "clickRemoveTargetImageBtn"}
            => /\ Len(app'.imageGallery) =
                    Len(app.imageGallery) + Len(ReturnedImages(op, response))
               /\ \A i \in 1..Len(ReturnedImages(op, response)) :
                    app'.imageGallery[Len(app.imageGallery) + i] =
                      ReturnedImages(op, response)[i]]_vars

\* four user events in ImageEdit mode, the slot empty and the prompt empty and
\* yet the output of a content-edit call in the gallery: the events were the
\* switch to ImageEdit, an upload, the submit and then the clear-all, and the
\* call resolved after the clear-all
C17_Witness ==
  /\ last = "callResolves"
  /\ events = 4
  /\ app.mode = "image-edit"
  /\ SingleSlotEmpty
  /\ app.promptInput = <<>>
  /\ app.imageGallery = << <<"data:", "image/png", ";base64,", "out1">>,
                           <<"data:", "image/png", ";base64,", "out2">> >>

\* C18: in every state in which a remote call is in flight the loading
\* indicator is set.
C18_LoadingWhilePending == calls # EmptyBag => app.loading

HandlerOf(slot) ==
  IF slot = "single" THEN "handleSingleFile"
  ELSE IF slot = "source" THEN "handleSourceFile"
  ELSE "handleTargetFile"

SlotImage(s, slot) ==
  IF slot = "single"
    THEN [base64 |-> s.uploadedImageBase64, mimeType |-> s.uploadedImageMimeType]
  ELSE IF slot = "source"
    THEN [base64 |-> s.sourceImageBase64, mimeType |-> s.sourceImageMimeType]
  ELSE [base64 |-> s.targetImageBase64, mimeType |-> s.targetImageMimeType]

\* what the slot holds when the operation performed last on it has won
ImageOf(file) ==
  IF file = NoFile THEN [base64 |-> Null, mimeType |-> Null]
  ELSE fileToBase64(file)

NoReadsFor(rs, handler) == \A r \in BagToSet(rs) : r.handler # handler

\* C19: when the last pending read of a slot completes, the slot holds the
\* image of the file selected last for it if no removal, mode switch that
\* invalidates the slot or clear-all came after that selection, and nothing
\* if one did.
C19_LastOperationWins ==
  [][\A slot \in {"single", "source", "target"} :
       ReadDone(HandlerOf(slot)) /\ NoReadsFor(reads', HandlerOf(slot))
         => SlotImage(app', slot) = ImageOf(selected'[slot])]_vars

\* C20: every submit leaves the gallery empty, and a submit that fails
\* validation, a required image missing or the prompt blank, leaves the
\* loading indicator cleared and the three slots, the mode, the prompt and
\* the negative prompt as they were.
C20_FailedValidationFrame ==
  [][/\ submit => app'.imageGallery = <<>>
     /\ submit /\ (BlankPromptCase \/ MissingImageCase) =>
          /\ ~app'.loading
          /\ SingleSlot(app') = SingleSlot(app)
          /\ SourceSlot(app') = SourceSlot(app)
          /\ TargetSlot(app') = TargetSlot(app)
          /\ app'.mode = app.mode
          /\ app'.promptInput = app.promptInput
          /\ app'.negativePromptInput = app.negativePromptInput]_vars

\* an ImageUpscale submit without an image has been refused while the call of
\* an earlier cycle was in flight: the gallery is empty and the loading
\* indicator cleared
C20_Witness ==
  /\ last = "submit"
  /\ alerted = "Please upload an image for upscaling."
  /\ app.mode = "image-upscale"
  /\ SingleSlotEmpty
  /\ calls # EmptyBag
  /\ app.imageGallery = <<>>
  /\ ~app.loading

====
